---- MODULE Spec2Model ----
(***************************************************************************)
(* Turn-state machine of the debate application.                           *)
(*                                                                         *)
(* The Firestore debate document (debate) and its arguments sub-collection *)
(* (arguments) are the shared state.  A handler runs in one client: it     *)
(* reads the snapshot its component rendered with (the React closure,      *)
(* captured when the handler is invoked) and then issues unconditional     *)
(* addDoc / updateDoc writes.  Every handler is split at its awaits: the   *)
(* step that invokes it captures what it read, and each write lands in a   *)
(* later step, so that other clients' writes can land in between.          *)
(*                                                                         *)
(* An identity may have the room open in a second browser session; what    *)
(* that session holds (its join-request dialog, a resolution it has sent)  *)
(* is session2 (same: whether the last resolution it sent found the status *)
(* it wrote already stored).                                               *)
(*                                                                         *)
(* Spec  : components/DebateRoom.tsx, the component the pages mount.       *)
(* SpecR : the refactored DebateRoom with DebateTimer (autoSkipTurn with a *)
(*         duplicate check) for the active phase; same setup phase.        *)
(* SpecH : the handlers of Spec run one at a time, no timeout, no Judge     *)
(*         failure.                                                        *)
(* SpecP : the setup phase with second sessions.                           *)
(* SpecJ : SpecH in which the Judge request may fail; every awaited step   *)
(*         settles (weak fairness).                                        *)
(* SpecA : the analysis of a completed debate, for every scoring of its    *)
(*         arguments.                                                      *)
(* SpecT : SpecH with the round timer: elapsed is the time since           *)
(*         roundStartedAt was written, roundTimeLeft[c] the countdown      *)
(*         state of client c's DebateTimer.                                *)
(* SpecF : SpecT with Judge failures and fairness of the timer and of the  *)
(*         awaited steps.                                                  *)
(* SpecS : the setup phase in which an identity may also join from its     *)
(*         second session (session2.join).                                 *)
(***************************************************************************)
EXTENDS Integers, Sequences, FiniteSets, TLC

VARIABLES debate, arguments, h, slow, debateAnalysis, analysisWrites, session2,
          roundTimeLeft, elapsed

vars == <<debate, arguments, h, slow, debateAnalysis, analysisWrites, session2,
          roundTimeLeft, elapsed>>

\* ---------------------------------------------------------------- bounds
\* rounds of a debate (CreateDebate sets 5), arguments ever appended, and
\* how many times in a run a handler that is awaiting a write or the Judge is
\* overtaken by handlers of other clients (which then run one at a time)
MaxRounds == 2
MaxArgs == 4
MaxSlow == 1

\* ------------------------------------------------------------- constants
NULL == "null"
\* an unset numeric field (currentRoundTimeLeft: null, aiScore absent)
UNSET == 0 - 1
Ids == {"c", "u", "v"}
CreatorId == "c"
RoundTimeLimit == 120
Positions == {"a", "b"}
JudgeScores == {7}
Winners == {"a", "b", "tie"}
SkippedText == "[SKIPPED - Time expired]"
PreActive == {"setup", "waiting_for_players", "ready_to_start"}

\* ---------------------------------------------------------------- helpers
ParticipantCount(p) == Cardinality({s \in Positions : p[s] # NULL})

getUserPosition(d, u) ==
  IF d.participants.a = u THEN "a"
  ELSE IF d.participants.b = u THEN "b"
  ELSE NULL

\* x?.uid || ""
OrEmpty(x) == IF x = NULL THEN "" ELSE x

\* a string or null used as a condition
Truthy(x) == x \notin {NULL, ""}

getNextTurn(d, u) ==
  IF getUserPosition(d, u) = "a" THEN OrEmpty(d.participants.b)
  ELSE IF getUserPosition(d, u) = "b" THEN OrEmpty(d.participants.a)
  ELSE ""

isMyTurn(d, u) == Truthy(d.currentTurn) /\ d.currentTurn = u

RoundArgs(args, r) == {i \in DOMAIN args : args[i].round = r}

shouldAdvanceRound(d, args) == Cardinality(RoundArgs(args, d.round)) >= 2

permissionStatus(d, u) ==
  IF u = CreatorId \/ getUserPosition(d, u) # NULL THEN "approved"
  ELSE IF d.joinRequests[u] = NULL THEN NULL
  ELSE IF d.joinRequests[u] = "pending" THEN "request_sent"
  ELSE d.joinRequests[u]

TurnPatch(d, nextTurn, nextRound) ==
  LET isDebateComplete == nextRound > MaxRounds IN
  [d EXCEPT !.currentTurn = IF isDebateComplete THEN NULL ELSE nextTurn,
            !.round = nextRound,
            !.status = IF isDebateComplete THEN "completed" ELSE "active",
            !.currentRoundTimeLeft = IF isDebateComplete THEN UNSET ELSE RoundTimeLimit,
            !.roundStartedAt = IF isDebateComplete THEN NULL ELSE "ts"]

\* a client's handler in flight: what it captured and where it is
Idle == [op |-> "idle", pc |-> "idle", participants |-> [a |-> NULL, b |-> NULL], pos |-> NULL,
         stmt |-> "", turn |-> NULL, round |-> 0, idx |-> 0, req |-> NULL]

\* no resolution of the creator's second session in flight
NoResolve == [userId |-> NULL, action |-> NULL]

\* no join of a second session in flight
NoJoin == [userId |-> NULL, pos |-> NULL, participants |-> [a |-> NULL, b |-> NULL],
           stmt |-> "", req |-> NULL]

Busy == {c \in Ids : h[c].op # "idle"}

\* client c invokes a handler: either nothing else is in flight but the slow
\* handler, or the one handler in flight becomes the slow one
Invoke(c) ==
  /\ h[c].op = "idle"
  /\ \/ Busy \subseteq {slow.who} /\ slow' = slow
     \/ /\ slow.who = NULL /\ slow.n < MaxSlow
        /\ \E x \in Ids : Busy = {x} /\ slow' = [who |-> x, n |-> slow.n + 1]

\* the handler of client c ends
Return(c) == slow' = IF slow.who = c THEN [slow EXCEPT !.who = NULL] ELSE slow

\* ------------------------------------------------------------------ Init
NewDebate ==
  [status |-> "setup",
   participants |-> [a |-> NULL, b |-> NULL],
   positionA |-> "", positionB |-> "",
   currentTurn |-> NULL,
   round |-> 0,
   currentRoundTimeLeft |-> UNSET,
   roundStartedAt |-> NULL,
   joinRequests |-> [u \in Ids |-> NULL],
   analysis |-> NULL]

Init ==
  /\ debate = NewDebate
  /\ arguments = <<>>
  /\ h = [c \in Ids |-> Idle]
  /\ slow = [who |-> NULL, n |-> 0]
  /\ debateAnalysis = [c \in Ids |-> FALSE]
  /\ analysisWrites = 0
  /\ session2 = [modal |-> {}, resolve |-> NoResolve, same |-> FALSE, join |-> NoJoin]
  /\ roundTimeLeft = [c \in Ids |-> 0]
  /\ elapsed = 0

\* ------------------------------------------------------------ permission
\* updateDoc({[`joinRequests.${requestId}`]: {..., status: "pending"}})
RequestPatchWholeMap(d, u) ==
  [d EXCEPT !.joinRequests = [x \in Ids |-> IF x = u THEN "pending" ELSE NULL]]

RequestPatch(d, u) == [d EXCEPT !.joinRequests[u] = "pending"]

\* updateDoc({[`joinRequests.${userId}.status`]: "approved" | "denied"})
ResolvedStatus(action) == IF action = "approve" THEN "approved" ELSE "denied"

ResolvePatchReopens(d, u, action) ==
  [d EXCEPT !.joinRequests[u] = IF @ = ResolvedStatus(action) THEN "pending"
                                ELSE ResolvedStatus(action)]

ResolvePatch(d, u, action) == [d EXCEPT !.joinRequests[u] = ResolvedStatus(action)]

\* the join-request dialog is open (the permission effect found no access
\* and no request) and Send Request is clicked
requestJoinPermission(c) ==
  /\ Invoke(c)
  /\ permissionStatus(debate, c) = NULL
  /\ debate' = RequestPatch(debate, c)
  /\ UNCHANGED <<arguments, h, debateAnalysis, analysisWrites, session2, roundTimeLeft, elapsed>>

\* the approval card is rendered for the creator and lists the pending
\* requests; a button of it is clicked
handleJoinRequest(c, u, action) ==
  /\ Invoke(c)
  /\ c = CreatorId
  /\ debate.joinRequests[u] = "pending"
  /\ debate' = ResolvePatch(debate, u, action)
  /\ UNCHANGED <<arguments, h, debateAnalysis, analysisWrites, session2, roundTimeLeft, elapsed>>

\* ------------------------------------------------------------------ join
availablePosition(d) == IF d.participants.a = NULL THEN "a" ELSE "b"

positionStatement(d, c, typed) ==
  LET loaded == IF availablePosition(d) = "a" THEN d.positionA ELSE d.positionB
  IN IF loaded # "" THEN loaded ELSE IF typed THEN "statement" ELSE ""

joinDebateSimple(c, typed) ==
  /\ Invoke(c)
  /\ debate.status \in PreActive
  /\ getUserPosition(debate, c) = NULL
  /\ permissionStatus(debate, c) = "approved"
  /\ positionStatement(debate, c, typed) # ""
  /\ h' = [h EXCEPT ![c] = [Idle EXCEPT
              !.op = "join",
              !.pos = availablePosition(debate),
              !.participants = [debate.participants EXCEPT ![availablePosition(debate)] = c],
              !.stmt = positionStatement(debate, c, typed),
              !.req = IF debate.joinRequests[c] # NULL THEN c ELSE NULL]]
  /\ UNCHANGED <<debate, arguments, debateAnalysis, analysisWrites, session2, roundTimeLeft, elapsed>>

\* the join write computed by identity c's handler from what it captured in
\* j: the whole participants object, the statement of its slot, the status,
\* and the deletion of c's join request
JoinPatchOneSlot(d, c, j) ==
  [d EXCEPT !.participants[j.pos] = c]

JoinPatch(d, c, j) ==
  LET bothPlayersJoined == ParticipantCount(j.participants) = 2 IN
  [d EXCEPT
        !.participants = j.participants,
        !.positionA = IF j.pos = "a" THEN j.stmt ELSE @,
        !.positionB = IF j.pos = "b" THEN j.stmt ELSE @,
        !.status = IF bothPlayersJoined THEN "ready_to_start" ELSE "waiting_for_players",
        !.joinRequests[c] = IF j.req # NULL THEN NULL ELSE @]

joinLands(c) ==
  /\ h[c].op = "join"
  /\ debate' = JoinPatch(debate, c, h[c])
  /\ h' = [h EXCEPT ![c] = Idle]
  /\ Return(c)
  /\ UNCHANGED <<arguments, debateAnalysis, analysisWrites, session2, roundTimeLeft, elapsed>>

\* ----------------------------------------------------------------- start
creatorParticipant(d) ==
  IF CreatorId \in {d.participants.a, d.participants.b} THEN CreatorId ELSE NULL

startDebate(c) ==
  /\ Invoke(c)
  /\ debate.status \in PreActive
  /\ \/ getUserPosition(debate, c) # NULL /\ ParticipantCount(debate.participants) = 2
     \/ getUserPosition(debate, c) = NULL /\ permissionStatus(debate, c) = NULL
  /\ ParticipantCount(debate.participants) >= 2
  /\ creatorParticipant(debate) # NULL
  /\ h' = [h EXCEPT ![c] = [Idle EXCEPT !.op = "start",
                                        !.turn = creatorParticipant(debate)]]
  /\ UNCHANGED <<debate, arguments, debateAnalysis, analysisWrites, session2, roundTimeLeft, elapsed>>

startLands(c) ==
  /\ h[c].op = "start"
  /\ debate' = [debate EXCEPT !.status = "active",
                              !.currentTurn = h[c].turn,
                              !.round = 1,
                              !.currentRoundTimeLeft = RoundTimeLimit,
                              !.roundStartedAt = "ts"]
  /\ h' = [h EXCEPT ![c] = Idle]
  /\ Return(c)
  /\ UNCHANGED <<arguments, debateAnalysis, analysisWrites, session2, roundTimeLeft>>
  /\ elapsed' = 0

Setup ==
  \/ \E c \in Ids : requestJoinPermission(c)
  \/ \E c \in Ids, u \in Ids, action \in {"approve", "deny"} : handleJoinRequest(c, u, action)
  \/ \E c \in Ids, typed \in BOOLEAN : joinDebateSimple(c, typed)
  \/ \E c \in Ids : joinLands(c)
  \/ \E c \in Ids : startDebate(c)
  \/ \E c \in Ids : startLands(c)

\* the argument field: the texts a participant may have in it (blank, one
\* word with surrounding blanks, more words than the limit), String.trim,
\* and the word count text.trim().split(/\s+/).filter(w => w.length > 0).length
MaxWords == 500

Texts == {" ", " text ", "long text"}

trim(text) == IF text = " " THEN "" ELSE IF text = " text " THEN "text" ELSE text

getWordCount(text) ==
  IF trim(text) = "" THEN 0
  ELSE IF trim(text) = "text" THEN 1
  ELSE MaxWords + 1

isValidWordCountAlways(text) == TRUE

isValidWordCount(text) == getWordCount(text) <= MaxWords

\* ---------------------------------------------------------------- submit
Adding == Cardinality({c \in Ids : h[c].pc = "adding"})

\* the handler is invoked: the button is enabled when isMyTurn(), and the
\* closure holds debate and debateArguments as rendered
submitArgument(c) ==
  LET userPosition == getUserPosition(debate, c)
      totalArgsAfterThis == Cardinality(RoundArgs(arguments, debate.round)) + 1
      advance == totalArgsAfterThis >= 2
  IN
  /\ Invoke(c)
  /\ debate.status = "active"
  /\ isMyTurn(debate, c)
  /\ userPosition # NULL
  /\ Len(arguments) + Adding < MaxArgs
  /\ \E currentArgument \in Texts :
        /\ trim(currentArgument) # ""
        /\ isValidWordCount(currentArgument)
        /\ h' = [h EXCEPT ![c] = [Idle EXCEPT
              !.op = "submit", !.pc = "adding",
              !.pos = userPosition,
              !.stmt = trim(currentArgument),
              !.round = IF advance THEN debate.round + 1 ELSE debate.round,
              !.turn = IF advance THEN OrEmpty(debate.participants.a)
                       ELSE getNextTurn(debate, c),
              !.idx = debate.round]]
  /\ UNCHANGED <<debate, arguments, debateAnalysis, analysisWrites, session2, roundTimeLeft, elapsed>>

\* addDoc(arguments, {text, position, round: debate.round}) lands
submitAdds(c) ==
  /\ h[c].op = "submit" /\ h[c].pc = "adding"
  /\ arguments' = Append(arguments,
        [text |-> h[c].stmt, position |-> h[c].pos, round |-> h[c].idx, aiScore |-> UNSET])
  /\ h' = [h EXCEPT ![c].pc = "scoring", ![c].idx = Len(arguments) + 1]
  /\ UNCHANGED slow
  /\ UNCHANGED <<debate, debateAnalysis, analysisWrites, session2, roundTimeLeft, elapsed>>

\* /api/score-argument answers 200 with a score, or a non-2xx status; the
\* argument document is updated with the score, or with 0
submitScored(c, ok, s) ==
  /\ h[c].op = "submit" /\ h[c].pc = "scoring"
  /\ arguments' = [arguments EXCEPT ![h[c].idx].aiScore = IF ok THEN s ELSE 0]
  /\ h' = [h EXCEPT ![c].pc = "commit"]
  /\ UNCHANGED slow
  /\ UNCHANGED <<debate, debateAnalysis, analysisWrites, session2, roundTimeLeft, elapsed>>

\* fetch or response.json() throws: the catch block ends the handler
submitThrows(c) ==
  /\ h[c].op = "submit" /\ h[c].pc = "scoring"
  /\ h' = [h EXCEPT ![c] = Idle]
  /\ Return(c)
  /\ UNCHANGED <<debate, arguments, debateAnalysis, analysisWrites, session2, roundTimeLeft, elapsed>>

\* updateDoc(debate, {currentTurn, round, status, ...}) lands
submitCommit(c) ==
  /\ h[c].op = "submit" /\ h[c].pc = "commit"
  /\ debate' = TurnPatch(debate, h[c].turn, h[c].round)
  /\ h' = [h EXCEPT ![c] = Idle]
  /\ Return(c)
  /\ UNCHANGED <<arguments, debateAnalysis, analysisWrites, session2, roundTimeLeft>>
  /\ elapsed' = 0

\* ------------------------------------------------------------- auto-skip
\* the round timer of client c reaches 0 on the snapshot it rendered
autoSkipTurn(c) ==
  LET currentUserPosition == IF debate.currentTurn = debate.participants.a THEN "a" ELSE "b"
      currentParticipant == debate.participants[currentUserPosition]
  IN
  /\ Invoke(c)
  /\ debate.status = "active"
  /\ debate.currentRoundTimeLeft > 0
  /\ Truthy(debate.currentTurn)
  /\ Len(arguments) + Adding < MaxArgs
  /\ h' = [h EXCEPT ![c] = [Idle EXCEPT
              !.op = "skip",
              !.pc = IF currentParticipant # NULL THEN "adding" ELSE "commit",
              !.pos = currentUserPosition,
              !.idx = debate.round,
              !.turn = getNextTurn(debate, c),
              !.round = IF shouldAdvanceRound(debate, arguments)
                        THEN debate.round + 1 ELSE debate.round]]
  /\ UNCHANGED <<debate, arguments, debateAnalysis, analysisWrites, session2, roundTimeLeft, elapsed>>

skipAdds(c) ==
  /\ h[c].op = "skip" /\ h[c].pc = "adding"
  /\ arguments' = Append(arguments,
        [text |-> SkippedText, position |-> h[c].pos, round |-> h[c].idx, aiScore |-> 0])
  /\ h' = [h EXCEPT ![c].pc = "commit"]
  /\ UNCHANGED slow
  /\ UNCHANGED <<debate, debateAnalysis, analysisWrites, session2, roundTimeLeft, elapsed>>

skipCommit(c) ==
  /\ h[c].op = "skip" /\ h[c].pc = "commit"
  /\ debate' = TurnPatch(debate, h[c].turn, h[c].round)
  /\ h' = [h EXCEPT ![c] = Idle]
  /\ Return(c)
  /\ UNCHANGED <<arguments, debateAnalysis, analysisWrites, session2, roundTimeLeft>>
  /\ elapsed' = 0

\* the refactored component: DebateTimer is mounted for a participant only,
\* the skip is cancelled when the closure already holds an argument of the
\* turn's position and round, and the next turn follows debate.currentTurn
getNextTurnR(d) ==
  IF d.currentTurn = d.participants.a THEN OrEmpty(d.participants.b)
  ELSE OrEmpty(d.participants.a)

existingArgument(d, args, p) ==
  \E i \in DOMAIN args : args[i].position = p /\ args[i].round = d.round

autoSkipTurnR(c) ==
  LET currentUserPosition == IF debate.currentTurn = debate.participants.a THEN "a" ELSE "b"
      currentParticipant == debate.participants[currentUserPosition]
      totalArgsAfterThis == Cardinality(RoundArgs(arguments, debate.round)) + 1
      advance == totalArgsAfterThis >= 2
  IN
  /\ Invoke(c)
  /\ getUserPosition(debate, c) # NULL
  /\ debate.status = "active"
  /\ Truthy(debate.currentTurn)
  /\ ~existingArgument(debate, arguments, currentUserPosition)
  /\ Len(arguments) + Adding < MaxArgs
  /\ h' = [h EXCEPT ![c] = [Idle EXCEPT
              !.op = "skip",
              !.pc = IF currentParticipant # NULL THEN "adding" ELSE "commit",
              !.pos = currentUserPosition,
              !.idx = debate.round,
              !.turn = IF advance THEN OrEmpty(debate.participants.a)
                       ELSE getNextTurnR(debate),
              !.round = IF advance THEN debate.round + 1 ELSE debate.round]]
  /\ UNCHANGED <<debate, arguments, debateAnalysis, analysisWrites, session2, roundTimeLeft, elapsed>>

Turns ==
  \/ \E c \in Ids : submitArgument(c)
  \/ \E c \in Ids : submitAdds(c)
  \/ \E c \in Ids, ok \in BOOLEAN, s \in JudgeScores : submitScored(c, ok, s)
  \/ \E c \in Ids : submitThrows(c)
  \/ \E c \in Ids : submitCommit(c)
  \/ \E c \in Ids : autoSkipTurn(c)
  \/ \E c \in Ids : skipAdds(c)
  \/ \E c \in Ids : skipCommit(c)

\* -------------------------------------------------------------- analysis
\* sum and count of the scores of one position, an absent aiScore read as 0
\* (arg.aiScore || 0)
RECURSIVE ScoreSum(_, _)
ScoreSum(args, p) ==
  IF args = <<>> THEN 0
  ELSE (IF Head(args).position = p /\ Head(args).aiScore # UNSET
        THEN Head(args).aiScore ELSE 0) + ScoreSum(Tail(args), p)

ScoreCount(args, p) == Cardinality({i \in DOMAIN args : args[i].position = p})

\* aAvg > bAvg ? "a" : bAvg > aAvg ? "b" : "tie", an average over no
\* arguments being 0 (NaN || 0); compared without the division
fallbackWinner(args) ==
  LET aN == IF ScoreCount(args, "a") = 0 THEN 1 ELSE ScoreCount(args, "a")
      bN == IF ScoreCount(args, "b") = 0 THEN 1 ELSE ScoreCount(args, "b")
      aAvg == ScoreSum(args, "a") * bN
      bAvg == ScoreSum(args, "b") * aN
  IN IF aAvg > bAvg THEN "a" ELSE IF bAvg > aAvg THEN "b" ELSE "tie"

\* the effect of a client that sees status completed and no analysis
analyzeDebateResults(c) ==
  /\ Invoke(c)
  /\ debate.status = "completed"
  /\ debate.analysis = NULL
  /\ ~debateAnalysis[c]
  /\ Len(arguments) > 0
  /\ h' = [h EXCEPT ![c] = [Idle EXCEPT !.op = "analyze",
                                        !.stmt = fallbackWinner(arguments)]]
  /\ UNCHANGED <<debate, arguments, debateAnalysis, analysisWrites, session2, roundTimeLeft, elapsed>>

\* /api/analyze-debate answers 200: the Judge's (or the route's own fallback)
\* analysis is saved
analysisOk(c, w) ==
  /\ h[c].op = "analyze"
  /\ debate' = [debate EXCEPT !.analysis = w]
  /\ analysisWrites' = analysisWrites + 1
  /\ debateAnalysis' = [debateAnalysis EXCEPT ![c] = TRUE]
  /\ h' = [h EXCEPT ![c] = Idle]
  /\ Return(c)
  /\ UNCHANGED <<arguments, session2, roundTimeLeft, elapsed>>

\* a non-2xx status: the averages computed in the client are saved
analysisFails(c) ==
  /\ h[c].op = "analyze"
  /\ debate' = [debate EXCEPT !.analysis = h[c].stmt]
  /\ analysisWrites' = analysisWrites + 1
  /\ debateAnalysis' = [debateAnalysis EXCEPT ![c] = TRUE]
  /\ h' = [h EXCEPT ![c] = Idle]
  /\ Return(c)
  /\ UNCHANGED <<arguments, session2, roundTimeLeft, elapsed>>

\* fetch throws: the catch block only shows the modal
analysisThrows(c) ==
  /\ h[c].op = "analyze"
  /\ h' = [h EXCEPT ![c] = Idle]
  /\ Return(c)
  /\ UNCHANGED <<debate, arguments, debateAnalysis, analysisWrites, session2, roundTimeLeft, elapsed>>

Analysis ==
  \/ \E c \in Ids : analyzeDebateResults(c)
  \/ \E c \in Ids, w \in Winners : analysisOk(c, w)
  \/ \E c \in Ids : analysisFails(c)
  \/ \E c \in Ids : analysisThrows(c)

TurnsR ==
  \/ \E c \in Ids : submitArgument(c)
  \/ \E c \in Ids : submitAdds(c)
  \/ \E c \in Ids, ok \in BOOLEAN, s \in JudgeScores : submitScored(c, ok, s)
  \/ \E c \in Ids : submitThrows(c)
  \/ \E c \in Ids : submitCommit(c)
  \/ \E c \in Ids : autoSkipTurnR(c)
  \/ \E c \in Ids : skipAdds(c)
  \/ \E c \in Ids : skipCommit(c)

Next == Setup \/ Turns \/ Analysis

Spec == Init /\ [][Next]_vars

NextR == Setup \/ TurnsR

SpecR == Init /\ [][NextR]_vars

\* --------------------------------------------------------- second session
\* An identity has the room open in a second browser session.  Its
\* permission effect opens the join-request dialog when it finds no access
\* and no request; the dialog stays open (showJoinRequestModal is reset only
\* by Send Request, Cancel and a new debateId).
openRoom2(u) ==
  /\ u \notin session2.modal
  /\ permissionStatus(debate, u) = NULL
  /\ session2' = [session2 EXCEPT !.modal = @ \cup {u}]
  /\ UNCHANGED <<debate, arguments, h, slow, debateAnalysis, analysisWrites>>
  /\ UNCHANGED <<roundTimeLeft, elapsed>>

\* Send Request in the second session: the dialog is rendered unless the
\* component returned early for request_sent or denied
requestJoinPermission2(u) ==
  /\ u \in session2.modal
  /\ permissionStatus(debate, u) \in {NULL, "approved"}
  /\ debate' = RequestPatch(debate, u)
  /\ session2' = [session2 EXCEPT !.modal = @ \ {u}]
  /\ UNCHANGED <<arguments, h, slow, debateAnalysis, analysisWrites>>
  /\ UNCHANGED <<roundTimeLeft, elapsed>>

\* the creator's second session clicks a button of its approval card
handleJoinRequest2(u, action) ==
  /\ session2.resolve = NoResolve
  /\ debate.joinRequests[u] = "pending"
  /\ session2' = [session2 EXCEPT !.resolve = [userId |-> u, action |-> action]]
  /\ UNCHANGED <<debate, arguments, h, slow, debateAnalysis, analysisWrites>>
  /\ UNCHANGED <<roundTimeLeft, elapsed>>

\* and its updateDoc lands
handleJoinRequest2Lands ==
  /\ session2.resolve # NoResolve
  /\ debate' = ResolvePatch(debate, session2.resolve.userId, session2.resolve.action)
  /\ session2' = [session2 EXCEPT
        !.resolve = NoResolve,
        !.same = debate.joinRequests[session2.resolve.userId]
                   = ResolvedStatus(session2.resolve.action)]
  /\ UNCHANGED <<arguments, h, slow, debateAnalysis, analysisWrites>>
  /\ UNCHANGED <<roundTimeLeft, elapsed>>

\* SpecP: the setup phase with second sessions
NextP ==
  \/ Setup
  \/ \E u \in Ids : openRoom2(u)
  \/ \E u \in Ids : requestJoinPermission2(u)
  \/ \E u \in Ids, action \in {"approve", "deny"} : handleJoinRequest2(u, action)
  \/ handleJoinRequest2Lands

SpecP == Init /\ [][NextP]_vars

\* an identity clicks Join Debate in its second session, whose snapshot does
\* not seat it, and the write lands later
joinDebateSimple2(u, typed) ==
  /\ session2.join = NoJoin
  /\ debate.status \in PreActive
  /\ getUserPosition(debate, u) = NULL
  /\ permissionStatus(debate, u) = "approved"
  /\ positionStatement(debate, u, typed) # ""
  /\ session2' = [session2 EXCEPT !.join =
        [userId |-> u,
         pos |-> availablePosition(debate),
         participants |-> [debate.participants EXCEPT ![availablePosition(debate)] = u],
         stmt |-> positionStatement(debate, u, typed),
         req |-> IF debate.joinRequests[u] # NULL THEN u ELSE NULL]]
  /\ UNCHANGED <<debate, arguments, h, slow, debateAnalysis, analysisWrites>>
  /\ UNCHANGED <<roundTimeLeft, elapsed>>

joinLands2 ==
  /\ session2.join # NoJoin
  /\ debate' = JoinPatch(debate, session2.join.userId, session2.join)
  /\ session2' = [session2 EXCEPT !.join = NoJoin]
  /\ UNCHANGED <<arguments, h, slow, debateAnalysis, analysisWrites>>
  /\ UNCHANGED <<roundTimeLeft, elapsed>>

\* SpecS: the setup phase in which an identity may also join from its second
\* session
NextS ==
  \/ Setup
  \/ \E u \in Ids, typed \in BOOLEAN : joinDebateSimple2(u, typed)
  \/ joinLands2

SpecS == Init /\ [][NextS]_vars

\* ================================================================ claims
StatusRank(st) ==
  CASE st = "setup" -> 0
    [] st = "waiting_for_players" -> 1
    [] st = "ready_to_start" -> 2
    [] st = "active" -> 3
    [] st = "completed" -> 4

Seated(d) == {d.participants.a, d.participants.b} \ {NULL}

ArgsOf(r, p) == {i \in DOMAIN arguments : arguments[i].round = r /\ arguments[i].position = p}

\* C1: in every state, status is active exactly when currentTurn is the uid of
\* one of the two seated participants, and currentTurn is unset otherwise.
C1_ActiveIffTurn ==
  /\ debate.status = "active" <=> debate.currentTurn \in Seated(debate)
  /\ debate.status # "active" => debate.currentTurn = NULL

\* C2: the arguments collection never holds two arguments of the same round
\* and position.
C2_OneArgumentPerRoundAndSlot ==
  \A r \in 0..(MaxRounds + 1), p \in Positions : Cardinality(ArgsOf(r, p)) <= 1

\* C3: a submit and a timeout for the same round and slot never both record
\* an argument: no submitted argument and skipped argument share (round, position).
C3_SubmitOrSkipNotBoth ==
  \A i, j \in DOMAIN arguments :
     arguments[i].text = SkippedText /\ arguments[j].text # SkippedText
       => ~(arguments[i].round = arguments[j].round
            /\ arguments[i].position = arguments[j].position)

\* C4: the stored round of a started debate never decreases, and a step that
\* increases it adds exactly 1 and is taken where each slot has exactly one
\* argument of the round being left.
C4_RoundAdvance ==
  [][debate.round >= 1 =>
       /\ debate'.round >= debate.round
       /\ debate'.round > debate.round =>
            /\ debate'.round = debate.round + 1
            /\ \A p \in Positions : Cardinality(ArgsOf(debate.round, p)) = 1]_vars

\* C5: in every state, status is completed exactly when round > maxRounds.
C5_CompletedIffRoundsOver ==
  debate.status = "completed" <=> debate.round > MaxRounds

\* C6: the analysis field is written at most once in the life of a debate.
C6_AnalysisWrittenOnce == analysisWrites <= 1

\* C7: every invocation of analyzeDebateResults that ends (Judge success,
\* HTTP failure, thrown error) leaves an analysis in the debate document.
C7_AnalysisPersistedOnEveryPath ==
  [][\A c \in Ids : h[c].op = "analyze" /\ h'[c].op = "idle"
        => debate'.analysis # NULL]_vars

\* C8: no step writes a status earlier in the order setup, waiting_for_players,
\* ready_to_start, active, completed than the stored one.
C8_StatusForward ==
  [][StatusRank(debate'.status) >= StatusRank(debate.status)]_vars

\* C9: a slot that holds an identity holds the same identity in every later
\* state.
C9_SlotKeepsOccupant ==
  [][\A p \in Positions : debate.participants[p] # NULL
        => debate'.participants[p] = debate.participants[p]]_vars

\* C10: a Start that lands on a ready_to_start debate with both slots filled
\* sets status active, round 1, arms the round timer and gives the turn to the
\* occupant of slot a.
C10_StartGivesTurnToSlotA ==
  [][(/\ \E c \in Ids : h[c].op = "start" /\ h'[c].op = "idle"
      /\ debate.status = "ready_to_start"
      /\ ParticipantCount(debate.participants) = 2)
       => /\ debate'.status = "active"
          /\ debate'.round = 1
          /\ debate'.currentRoundTimeLeft = RoundTimeLimit
          /\ debate'.roundStartedAt # NULL
          /\ debate'.currentTurn = debate'.participants.a]_vars

OtherPosition(p) == IF p = "a" THEN "b" ELSE "a"

\* the turn write of client c's submit or skip lands on the round and turn the
\* handler argued for: the debate is active, in the round of the handler's
\* argument, and the turn is still that of the slot that argued
AcceptedCommit(c) ==
  /\ h[c].op \in {"submit", "skip"} /\ h[c].pc = "commit" /\ h'[c].op = "idle"
  /\ debate.status = "active"
  /\ debate.currentTurn = debate.participants[h[c].pos]
  /\ debate.round = (IF h[c].op = "submit" THEN arguments[h[c].idx].round ELSE h[c].idx)

BothArgued(r) == \A q \in Positions : ArgsOf(r, q) # {}

\* C11: when an accepted submit or timeout of round r commits: if both slots
\* have an argument of r, round becomes r+1 and the turn goes to slot a (or
\* to nobody, with status completed, when r+1 > maxRounds); otherwise round
\* stays r and the turn goes to the other slot; the timer is re-armed unless
\* the debate completes.
C11_TurnAfterArgument ==
  [][\A c \in Ids : AcceptedCommit(c) =>
       LET r == debate.round IN
       IF BothArgued(r)
       THEN /\ debate'.round = r + 1
            /\ IF r + 1 > MaxRounds
               THEN debate'.status = "completed" /\ debate'.currentTurn = NULL
               ELSE /\ debate'.status = "active"
                    /\ debate'.currentTurn = debate.participants.a
                    /\ debate'.currentRoundTimeLeft = RoundTimeLimit
                    /\ debate'.roundStartedAt # NULL
       ELSE /\ debate'.round = r
            /\ debate'.status = "active"
            /\ debate'.currentTurn = debate.participants[OtherPosition(h[c].pos)]
            /\ debate'.currentRoundTimeLeft = RoundTimeLimit
            /\ debate'.roundStartedAt # NULL]_vars

\* ------------------------------------------------- the undisturbed debate
\* SpecH: the handlers of DebateRoom.tsx run one at a time, two identities
\* join, no round timer expires and every Judge call answers 200
NextH ==
  \/ \E c \in Ids : requestJoinPermission(c) /\ slow' = slow
  \/ \E c \in Ids, u \in Ids, action \in {"approve", "deny"} :
        handleJoinRequest(c, u, action) /\ slow' = slow
  \/ \E c \in Ids, typed \in BOOLEAN :
        /\ ParticipantCount(debate.participants) < 2
        /\ joinDebateSimple(c, typed) /\ slow' = slow
  \/ \E c \in Ids : joinLands(c)
  \/ \E c \in Ids : startDebate(c) /\ slow' = slow
  \/ \E c \in Ids : startLands(c)
  \/ \E c \in Ids : submitArgument(c) /\ slow' = slow
  \/ \E c \in Ids : submitAdds(c)
  \/ \E c \in Ids, s \in JudgeScores : submitScored(c, TRUE, s)
  \/ \E c \in Ids : submitCommit(c)
  \/ \E c \in Ids : analyzeDebateResults(c) /\ slow' = slow
  \/ \E c \in Ids, w \in Winners : analysisOk(c, w)

SpecH == Init /\ [][NextH]_vars

\* C12: in the undisturbed debate, between handlers: two joined participants
\* make the debate ready_to_start; while active the turn is slot a's until
\* slot a has argued in the round and slot b's afterwards (so slot a opens
\* round 1 and every later round); the debate is completed exactly after
\* 2*maxRounds scored arguments, one per round and slot, with round =
\* maxRounds+1, and only then is an analysis stored.
C12_UndisturbedDebate ==
  Busy = {} =>
    /\ (debate.status \in PreActive /\ ParticipantCount(debate.participants) = 2)
          => debate.status = "ready_to_start"
    /\ debate.status = "active" =>
          /\ debate.round \in 1..MaxRounds
          /\ ArgsOf(debate.round, "b") = {}
          /\ debate.currentTurn = IF ArgsOf(debate.round, "a") = {}
                                  THEN debate.participants.a
                                  ELSE debate.participants.b
    /\ debate.status = "completed" =>
          /\ debate.round = MaxRounds + 1
          /\ Len(arguments) = 2 * MaxRounds
          /\ \A r \in 1..MaxRounds, p \in Positions : Cardinality(ArgsOf(r, p)) = 1
          /\ \A i \in DOMAIN arguments : arguments[i].aiScore \in JudgeScores
    /\ debate.analysis # NULL => debate.status = "completed"

\* the only handler in flight is the timeout of client c, fired in round r
\* during the turn of slot p, and its turn write lands
TimeoutCommits(c, p) ==
  /\ Busy = {c}
  /\ h[c].op = "skip" /\ h[c].pc = "commit" /\ h'[c].op = "idle"
  /\ h[c].pos = p /\ h[c].idx = debate.round
  /\ debate.status = "active"
  /\ debate.currentTurn = debate.participants[p]
  /\ \A i \in ArgsOf(debate.round, p) : arguments[i].text = SkippedText

\* C13: when the round timer expires during slot a's turn with no submission,
\* whichever client's timer fires, the timeout leaves exactly one argument of
\* (round, a), marked skipped with score 0, and the turn passes as after a
\* submit by a: to slot b in the same round when b has not argued in it.
C13_TimeoutOfSlotA ==
  [][\A c \in Ids : TimeoutCommits(c, "a") =>
        /\ Cardinality(ArgsOf(debate.round, "a")) = 1
        /\ \A i \in ArgsOf(debate.round, "a") :
              arguments[i].text = SkippedText /\ arguments[i].aiScore = 0
        /\ ArgsOf(debate.round, "b") = {} =>
              /\ debate'.round = debate.round
              /\ debate'.status = "active"
              /\ debate'.currentTurn = debate.participants.b]_vars

\* C14: a skipped argument counts as its slot having argued: when the other
\* slot has submitted one argument in round r and this slot's turn ends by a
\* timeout, the timeout's turn write takes the round to r+1, completing the
\* debate when r+1 > maxRounds.
C14_TimeoutCompletesRound ==
  [][\A c \in Ids, p \in Positions :
       (/\ TimeoutCommits(c, p)
        /\ Cardinality(ArgsOf(debate.round, p)) = 1
        /\ Cardinality(ArgsOf(debate.round, OtherPosition(p))) = 1
        /\ \A i \in ArgsOf(debate.round, OtherPosition(p)) : arguments[i].text # SkippedText)
       => /\ debate'.round = debate.round + 1
          /\ debate'.status = IF debate.round + 1 > MaxRounds THEN "completed" ELSE "active"
          /\ debate'.currentTurn = IF debate.round + 1 > MaxRounds THEN NULL
                                   ELSE debate.participants.a]_vars

\* the score the scoring route puts in the body of its 500 answer
FallbackScore == 5

\* C15: whatever the outcome of the Judge call of a submit (200, an error
\* status, a thrown request), the argument stays recorded, its score becomes
\* the Judge's score or the fallback 5 (never 0, never unset), and the handler
\* goes on to the turn write.
C15_JudgeFailureFallback ==
  [][\A c \in Ids :
       (h[c].op = "submit" /\ h[c].pc = "scoring" /\ h'[c] # h[c])
       => /\ h'[c].op = "submit" /\ h'[c].pc = "commit"
          /\ Len(arguments') = Len(arguments)
          /\ arguments'[h[c].idx].aiScore \in JudgeScores \cup {FallbackScore}]_vars

\* C16: a Join takes effect only for the creator or for an identity whose
\* join request is approved: when the join write of client c lands, c is the
\* creator or joinRequests holds an approved request of c.
C16_JoinOnlyWhenApproved ==
  [][\A c \in Ids : (h[c].op = "join" /\ h'[c].op = "idle")
        => c = CreatorId \/ debate.joinRequests[c] = "approved"]_vars

\* C17: in every state, an identity that occupies a slot has no entry in
\* joinRequests (the request is removed when its requester is seated).
C17_SeatedHasNoRequest ==
  \A p \in Positions :
     debate.participants[p] # NULL => debate.joinRequests[debate.participants[p]] = NULL

\* C18: a request's status becomes approved or denied only from pending: no
\* step creates an approved or denied entry for an identity without a request,
\* and none turns approved into denied or denied into approved.
C18_ResolveOnlyPending ==
  [][\A u \in Ids :
       (/\ debate'.joinRequests[u] \in {"approved", "denied"}
        /\ debate'.joinRequests[u] # debate.joinRequests[u])
       => debate.joinRequests[u] = "pending"]_vars

\* C19: resolving is idempotent: when a resolution lands on a request that
\* already has the status it writes (approve on approved, deny on denied),
\* the debate document is exactly what it was.
C19_ResolveIdempotent ==
  [][(/\ session2.resolve # NoResolve
      /\ session2'.resolve = NoResolve
      /\ debate.joinRequests[session2.resolve.userId] = ResolvedStatus(session2.resolve.action))
       => debate' = debate]_vars

\* the last resolution of the second session landed on a request that already
\* had the status it wrote, and an approved request is stored
C19_Witness ==
  /\ session2.same
  /\ \E u \in Ids : debate.joinRequests[u] = "approved"

\* C20: a join request becomes pending only for an identity that holds no
\* slot and has no request: no step turns an approved or denied request into
\* a pending one, and none creates a request for a seated identity.
C20_RequestOnlyWhenNone ==
  [][\A u \in Ids :
       (debate'.joinRequests[u] = "pending" /\ debate.joinRequests[u] # "pending")
       => debate.joinRequests[u] = NULL /\ getUserPosition(debate, u) = NULL]_vars

\* the precondition of a submit by c, on the stored state
SubmitPrecondition(c) ==
  /\ debate.status = "active"
  /\ debate.currentTurn = c
  /\ getUserPosition(debate, c) # NULL
  /\ ArgsOf(debate.round, getUserPosition(debate, c)) = {}

\* C21: a submit whose precondition fails mutates nothing: the argument of a
\* submit is appended only where the debate is active, the submitter holds
\* the turn and its slot has no argument of the current round.
C21_SubmitRejectedWithoutMutation ==
  [][\A c \in Ids :
       (h[c].op = "submit" /\ h[c].pc = "adding" /\ arguments' # arguments)
       => SubmitPrecondition(c)]_vars

\* the join write of client c lands
JoinTakesEffect(c) == h[c].op = "join" /\ h'[c].op = "idle"

\* C22: a Join that takes effect fills the first empty slot (a if empty,
\* otherwise b) and nothing else of participants, leaves that slot with a
\* position statement, and sets status ready_to_start exactly when both slots
\* are then filled and waiting_for_players exactly when one is.
C22_JoinFillsFirstEmptySlot ==
  [][\A c \in Ids : JoinTakesEffect(c) =>
       LET first == IF debate.participants.a = NULL THEN "a" ELSE "b" IN
       /\ debate.participants[first] = NULL
       /\ debate'.participants = [debate.participants EXCEPT ![first] = c]
       /\ (IF first = "a" THEN debate'.positionA ELSE debate'.positionB) # ""
       /\ debate'.status = IF ParticipantCount(debate'.participants) = 2
                           THEN "ready_to_start" ELSE "waiting_for_players"]_vars

\* the debate-document write of client c's handler lands on a stored state
\* (status, currentTurn, round) that is not the one the handler validated:
\* a submit validated active / own turn / the round of its argument, a skip
\* active / the turn of the slot it skips / its round, a start and a join a
\* debate that has not started
StaleCommit(c) ==
  /\ h'[c].op = "idle"
  /\ \/ /\ h[c].op = "submit" /\ h[c].pc = "commit"
        /\ \/ debate.status # "active"
           \/ debate.currentTurn # c
           \/ debate.round # arguments[h[c].idx].round
     \/ /\ h[c].op = "skip" /\ h[c].pc = "commit"
        /\ \/ debate.status # "active"
           \/ debate.currentTurn # debate.participants[h[c].pos]
           \/ debate.round # h[c].idx
     \/ /\ h[c].op \in {"start", "join"}
        /\ debate.status \notin PreActive

\* C23: a transition's write is conditional on the state it was validated
\* against: when the stored status, currentTurn or round differ at commit time
\* from what the handler validated, the debate document is left unchanged.
C23_CommitIsConditional ==
  [][\A c \in Ids : StaleCommit(c) => debate' = debate]_vars

\* the submit handler of client c ends after its argument was appended
SubmitEnds(c) ==
  /\ h[c].op = "submit" /\ h[c].pc \in {"scoring", "commit"}
  /\ h'[c].op = "idle"

\* C24: a transition is all-or-nothing: when the handler of a submit ends
\* after its argument was appended, on the failure path as on the normal one,
\* the debate is not left active with that argument recorded while
\* currentTurn still names its author and round is still the argument's.
C24_TransitionAllOrNothing ==
  [][\A c \in Ids : SubmitEnds(c) =>
       ~(/\ debate'.status = "active"
         /\ debate'.currentTurn = c
         /\ debate'.round = arguments'[h[c].idx].round
         /\ arguments'[h[c].idx].position = getUserPosition(debate', c))]_vars

\* ------------------------------------------------ the Judge call may fail
\* SpecJ: the undisturbed debate of SpecH in which the Judge request may also
\* answer a non-2xx status or throw.  Every awaited step of a handler in
\* flight settles: the promise of addDoc, fetch and updateDoc is resolved or
\* rejected, which of the two is the environment's choice.
NextJ ==
  \/ NextH
  \/ \E c \in Ids, s \in JudgeScores : submitScored(c, FALSE, s)
  \/ \E c \in Ids : submitThrows(c)

Settles(c) ==
  \/ joinLands(c)
  \/ startLands(c)
  \/ submitAdds(c)
  \/ \E ok \in BOOLEAN, s \in JudgeScores : submitScored(c, ok, s)
  \/ submitThrows(c)
  \/ submitCommit(c)
  \/ \E w \in Winners : analysisOk(c, w)

SpecJ == Init /\ [][NextJ]_vars /\ \A c \in Ids : WF_vars(Settles(c))

\* C25: every accepted argument (appended by a submit) eventually has a
\* score attached, the Judge's or the fallback, also when the Judge request
\* throws or answers with an unparsable body.
C25_AcceptedEventuallyScored ==
  \A i \in 1..MaxArgs :
    (i \in DOMAIN arguments /\ arguments[i].text # SkippedText)
      ~> (i \in DOMAIN arguments /\ arguments[i].aiScore # UNSET)

\* ------------------------------------------------- the fallback analyses
\* what analyzeDebate of aiScorer.ts computes in its catch block from the
\* arguments analyzeDebateResults posts: the client sends score = aiScore || 0
\* and the server reads score || 5; an average over no arguments is NaN, which
\* compares false both ways
DefaultScore == 5

RECURSIVE ScoreSumOr5(_, _)
ScoreSumOr5(args, p) ==
  IF args = <<>> THEN 0
  ELSE (IF Head(args).position # p THEN 0
        ELSE IF Head(args).aiScore \in {UNSET, 0} THEN DefaultScore
        ELSE Head(args).aiScore) + ScoreSumOr5(Tail(args), p)

analyzeDebate(args) ==
  LET aN == ScoreCount(args, "a")
      bN == ScoreCount(args, "b")
      aAvg == ScoreSumOr5(args, "a") * bN
      bAvg == ScoreSumOr5(args, "b") * aN
  IN IF aN = 0 \/ bN = 0 THEN "tie"
     ELSE IF aAvg > bAvg THEN "a" ELSE IF bAvg > aAvg THEN "b" ELSE "tie"

\* SpecA: the analysis of a debate that completed with one argument per round
\* and slot, each one submitted (unscored, or scored by the Judge) or skipped
AnalysisScores == {0, 3, 7}

ArgumentOf(i, skipped, score) ==
  [text |-> IF skipped THEN SkippedText ELSE "text",
   position |-> IF i % 2 = 1 THEN "a" ELSE "b",
   round |-> (i + 1) \div 2,
   aiScore |-> IF skipped THEN 0 ELSE score]

InitA ==
  /\ debate = [NewDebate EXCEPT !.status = "completed",
                                !.participants = [a |-> CreatorId, b |-> "u"],
                                !.positionA = "text", !.positionB = "text",
                                !.round = MaxRounds + 1]
  /\ \E skipped \in [1..(2 * MaxRounds) -> BOOLEAN],
        score \in [1..(2 * MaxRounds) -> AnalysisScores \cup {UNSET}] :
        arguments = [i \in 1..(2 * MaxRounds) |-> ArgumentOf(i, skipped[i], score[i])]
  /\ h = [c \in Ids |-> Idle]
  /\ slow = [who |-> NULL, n |-> 0]
  /\ debateAnalysis = [c \in Ids |-> FALSE]
  /\ analysisWrites = 0
  /\ session2 = [modal |-> {}, resolve |-> NoResolve, same |-> FALSE, join |-> NoJoin]
  /\ roundTimeLeft = [c \in Ids |-> 0]
  /\ elapsed = 0

SpecA == InitA /\ [][Analysis]_vars

\* C26: when the Judge's holistic analysis fails, the persisted winner is a
\* if the average of slot a's scores is strictly higher, b if slot b's is,
\* tie exactly when the two averages are equal, and it is the winner the
\* server-side fallback gives for the same arguments and scores.
C26_FallbackWinner ==
  [][\A c \in Ids : analysisFails(c) =>
       LET aAvg == ScoreSum(arguments, "a") * ScoreCount(arguments, "b")
           bAvg == ScoreSum(arguments, "b") * ScoreCount(arguments, "a")
       IN /\ debate'.analysis = "a" <=> aAvg > bAvg
          /\ debate'.analysis = "b" <=> bAvg > aAvg
          /\ debate'.analysis = "tie" <=> aAvg = bAvg
          /\ debate'.analysis = analyzeDebate(arguments)]_vars

\* ------------------------------------------------------- the round timer
\* SpecT: the handlers run one at a time as in SpecH, and the round timer is
\* explicit.  elapsed is the time since roundStartedAt was last written,
\* roundTimeLeft[c] the countdown state of client c's component (initially
\* 0); time passes in steps of half the round's limit.
TickSeconds == RoundTimeLimit \div 2

\* Math.max(0, currentRoundTimeLeft - elapsedSeconds)
TimeLeft(d) ==
  IF d.currentRoundTimeLeft - elapsed > 0 THEN d.currentRoundTimeLeft - elapsed ELSE 0

\* time passes: the interval of every mounted timer counts down
Tick ==
  /\ debate.status = "active"
  /\ elapsed < RoundTimeLimit \/ \E c \in Ids : roundTimeLeft[c] > 0
  /\ elapsed' = IF elapsed < RoundTimeLimit THEN elapsed + TickSeconds ELSE elapsed
  /\ roundTimeLeft' = [c \in Ids |->
        IF roundTimeLeft[c] - TickSeconds > 0 THEN roundTimeLeft[c] - TickSeconds ELSE 0]
  /\ UNCHANGED <<debate, arguments, h, slow, debateAnalysis, analysisWrites, session2>>

\* the countdown effect of DebateTimer runs in client c's component
timerEffect(c) ==
  /\ h[c].op = "idle"
  /\ getUserPosition(debate, c) # NULL
  /\ debate.status \in {"active", "completed"}
  /\ roundTimeLeft' = [roundTimeLeft EXCEPT ![c] =
        IF debate.status # "active" \/ debate.currentRoundTimeLeft <= 0
        THEN 0 ELSE TimeLeft(debate)]
  /\ UNCHANGED <<debate, arguments, h, slow, debateAnalysis, analysisWrites, session2, elapsed>>

\* the expiry effect of DebateTimer runs in client c's component and finds
\* its countdown state at 0
onTimeExpired(c) ==
  /\ roundTimeLeft[c] = 0
  /\ Truthy(debate.currentTurn)
  /\ debate.status = "active"
  /\ autoSkipTurnR(c)
  /\ slow' = slow

NextT ==
  \/ NextH
  \/ Tick
  \/ \E c \in Ids : timerEffect(c)
  \/ \E c \in Ids : onTimeExpired(c)
  \/ \E c \in Ids : skipAdds(c)
  \/ \E c \in Ids : skipCommit(c)

SpecT == Init /\ [][NextT]_vars

\* a skipped argument is appended, or the debate-document write of a skip lands
TimeoutTakesEffect ==
  \/ /\ Len(arguments') > Len(arguments)
     /\ arguments'[Len(arguments')].text = SkippedText
  \/ \E c \in Ids : h[c].op = "skip" /\ h[c].pc = "commit" /\ h'[c].op = "idle"

\* C27: a timeout takes effect only when the round timer has expired: no
\* client appends a skipped argument or advances the turn while time remains
\* since roundStartedAt of the current turn.
C27_TimeoutOnlyWhenExpired ==
  [][TimeoutTakesEffect => TimeLeft(debate) = 0]_vars

\* the Judge call of client c's submit is outstanding
JudgeOutstanding(c) == h[c].op = "submit" /\ h[c].pc = "scoring"

\* C28: the turn advance does not wait for the Judge: while the Judge call
\* of a submit is outstanding, the argument is stored unscored and the stored
\* debate has already left the turn the argument was submitted in (it is
\* completed, or currentTurn or round have moved on).
C28_TurnAdvanceDoesNotWaitForJudge ==
  \A c \in Ids : JudgeOutstanding(c) =>
    /\ arguments[h[c].idx].aiScore = UNSET
    /\ ~(/\ debate.status = "active"
         /\ debate.currentTurn = c
         /\ debate.round = arguments[h[c].idx].round)

\* the skipped arguments recorded for round r and position p
SkippedOf(r, p) == {i \in ArgsOf(r, p) : arguments[i].text = SkippedText}

\* C29: when the timers of several clients expire for the same turn, exactly
\* one skipped argument is recorded for its round and slot and the turn is
\* advanced once: a skip handler that finds a skipped argument of its round
\* and slot stored appends nothing, and one that finds the turn already
\* advanced leaves the debate document as it is.
C29_OneTimeoutPerTurn ==
  [][\A c \in Ids : (h[c].op = "skip" /\ h'[c] # h[c]) =>
       /\ (h[c].pc = "adding" /\ SkippedOf(h[c].idx, h[c].pos) # {})
             => arguments' = arguments
       /\ (/\ h[c].pc = "commit"
           /\ \/ debate.round # h[c].idx
              \/ debate.currentTurn # debate.participants[h[c].pos])
             => debate' = debate]_vars

\* C30: in the per-slot averages of the analysis, computed by the client
\* (analyzeDebateResults) and by the server (analyzeDebate), an argument that
\* timed out contributes exactly 0, an argument whose score is missing
\* contributes the fallback value, and every other argument its stored score,
\* a stored 0 included.
C30_ScoreContributions ==
  \A c \in Ids : h[c].op = "analyze" =>
    \A i \in DOMAIN arguments :
      LET arg == arguments[i]
          contribution == IF arg.text = SkippedText THEN 0
                          ELSE IF arg.aiScore = UNSET THEN FallbackScore
                          ELSE arg.aiScore
      IN /\ ScoreSum(<<arg>>, arg.position) = contribution
         /\ ScoreSumOr5(<<arg>>, arg.position) = contribution

TurnFields(d) ==
  <<d.status, d.currentTurn, d.round, d.currentRoundTimeLeft, d.roundStartedAt>>

\* C32: Start takes effect only from ready_to_start: the write of a Start
\* that lands when the stored status is already active or completed leaves
\* status, currentTurn, round and the timer fields unchanged.
C32_StartOnlyFromReady ==
  [][\A c \in Ids :
       (h[c].op = "start" /\ h'[c].op = "idle" /\ debate.status \in {"active", "completed"})
       => TurnFields(debate') = TurnFields(debate)]_vars

\* C33: every debate that is ready_to_start with both slots filled can be
\* started: with no handler in flight, the Start of a seated participant is
\* enabled, also when the creator is not one of the two seated participants.
C33_ReadyDebateCanStart ==
  (/\ debate.status = "ready_to_start"
   /\ ParticipantCount(debate.participants) = 2
   /\ Busy = {})
  => \E c \in Ids : getUserPosition(debate, c) # NULL /\ ENABLED startDebate(c)

\* C34: whenever the debate is completed, each slot has exactly one argument
\* for each round 1..maxRounds, and no argument has round 0 or a round above
\* maxRounds.
C34_CompletedHasAllArguments ==
  debate.status = "completed" =>
    /\ \A r \in 1..MaxRounds, p \in Positions : Cardinality(ArgsOf(r, p)) = 1
    /\ \A i \in DOMAIN arguments : arguments[i].round \in 1..MaxRounds

\* C35: in insertion order the arguments alternate strictly between the slots
\* and every round is argued by slot a first, then slot b, whoever took the
\* first turn after Start: the odd arguments are slot a's, the even ones slot
\* b's.
C35_ArgumentsAlternate ==
  \A i \in DOMAIN arguments :
    arguments[i].position = IF i % 2 = 1 THEN "a" ELSE "b"

\* ------------------------------------------- the round timer, with fairness
\* SpecF: SpecT in which the Judge request may also throw.  Time passes, a
\* timer that has run out triggers the timeout on some client, and every
\* awaited step of a handler in flight settles; no participant has to submit.
NextF ==
  \/ NextT
  \/ \E c \in Ids : submitThrows(c)

SpecF ==
  /\ Init /\ [][NextF]_vars
  /\ WF_vars(Tick)
  /\ WF_vars(\E c \in Ids : onTimeExpired(c))
  /\ \A c \in Ids : WF_vars(Settles(c) \/ skipAdds(c) \/ skipCommit(c))

\* C36: under fairness of the round timer every debate that becomes active
\* eventually becomes completed, even if no participant ever submits (in the
\* model: unless the bound on the arguments ever appended is reached first).
C36_ActiveEventuallyCompleted ==
  (debate.status = "active")
    ~> (debate.status = "completed" \/ Len(arguments) >= MaxArgs)

\* C37: completed is terminal: once the stored status is completed, no later
\* step appends an argument or changes status, round, currentTurn or the
\* timer fields.
C37_CompletedIsTerminal ==
  [][debate.status = "completed" =>
       /\ arguments' = arguments
       /\ TurnFields(debate') = TurnFields(debate)]_vars

\* no identity in both slots of a participants object
OneSlotEach(p) == p.a = p.b => p.a = NULL

\* C38: slot a and slot b are never occupied by the same identity, in the
\* stored debate and in the participants object a join in flight is about to
\* write: a join never seats an identity in a second slot, also when it is
\* repeated from a snapshot that does not show the first one.
C38_SlotsHoldDifferentIdentities ==
  /\ OneSlotEach(debate.participants)
  /\ \A c \in Ids : h[c].op = "join" => OneSlotEach(h[c].participants)
  /\ OneSlotEach(session2.join.participants)

\* a second join of an identity, for the other slot, is in flight while the
\* stored debate already seats that identity
C38_Witness ==
  \E c \in Ids :
    /\ session2.join.userId = c
    /\ getUserPosition(debate, c) # NULL
    /\ session2.join.pos # getUserPosition(debate, c)

\* the identities whose join request is written by the step (a join only
\* deletes the request of the identity it seats)
RequestsWritten ==
  {u \in Ids : /\ debate'.joinRequests[u] # debate.joinRequests[u]
               /\ debate'.joinRequests[u] # NULL}

====
